---------------------------- MODULE Spec2Model ----------------------------
(***************************************************************************)
(* SERP snippet simulator (src/main.py): the pixel-width estimator, the    *)
(* truncator, the URL formatter of class SERPSimulator and the bulk        *)
(* analysis loop of main().                                                *)
(*                                                                         *)
(* Representation.                                                         *)
(*  - A Python str is a sequence of characters; a character is a one-      *)
(*    character TLA+ string.  Characters that a TLA+ string literal cannot *)
(*    hold are written by code point: "U+0060" is the backtick, "U+203A"   *)
(*    is the single right-pointing angle quotation mark of the breadcrumb, *)
(*    "U+00E9" is e-acute (a character outside the width table).          *)
(*  - Widths are numbers of HALF pixels: the table holds 'a': 8.5, which   *)
(*    the integers cannot hold.  HalfPx(n) is n pixels; a comparison       *)
(*    width <= max_pixels of the source reads width <= HalfPx(max_pixels). *)
(***************************************************************************)
EXTENDS Integers, Sequences, FiniteSets, TLC

VARIABLES
    text,          \* truncator: the text argument
    max_pixels,    \* truncator: the pixel budget argument (whole pixels)
    pixels,        \* [width |-> calculate_pixel_width(text)] in half pixels, or NoValue
    truncation,    \* truncate_text(text, max_pixels), or NoValue
    retruncation,  \* truncate_text(truncation.text, max_pixels), or NoValue
    url,           \* formatter: the url argument (a Python value)
    formatted,     \* format_url(url): how the call ended, or NoValue
    device_type,   \* bulk analysis: the selected device profile
    df,            \* bulk analysis: the uploaded rows
    results,       \* bulk analysis: the result rows appended so far
    summary,       \* bulk analysis: the four summary metrics, or NoValue
    pc             \* position of the running operation

vars == <<text, max_pixels, pixels, truncation, retruncation, url, formatted,
          device_type, df, results, summary, pc>>

NoValue == [none |-> TRUE]

HalfPx(n) == 2 * n

(***************************************************************************)
(* Strings                                                                 *)
(***************************************************************************)
\* c * n
Rep(c, n) == IF n <= 0 THEN <<>> ELSE [i \in 1..n |-> c]

Prefix(s, i) == SubSeq(s, 1, i)           \* s[:i] for 0 <= i <= len(s)

Suffix(s, i) == SubSeq(s, i + 1, Len(s))  \* s[i:] for 0 <= i <= len(s)

(***************************************************************************)
(* SERPSimulator.__init__ : the character width table, in half pixels.     *)
(***************************************************************************)
char_widths ==
    ("a" :> 17) @@ ("b" :> HalfPx(9)) @@ ("c" :> HalfPx(8)) @@ ("d" :> HalfPx(9))
 @@ ("e" :> HalfPx(8)) @@ ("f" :> HalfPx(5)) @@ ("g" :> HalfPx(9)) @@ ("h" :> HalfPx(9))
 @@ ("i" :> HalfPx(4)) @@ ("j" :> HalfPx(4))
 @@ ("k" :> HalfPx(8)) @@ ("l" :> HalfPx(4)) @@ ("m" :> HalfPx(13)) @@ ("n" :> HalfPx(9))
 @@ ("o" :> HalfPx(9)) @@ ("p" :> HalfPx(9)) @@ ("q" :> HalfPx(9)) @@ ("r" :> HalfPx(6))
 @@ ("s" :> HalfPx(8)) @@ ("t" :> HalfPx(5))
 @@ ("u" :> HalfPx(9)) @@ ("v" :> HalfPx(8)) @@ ("w" :> HalfPx(12)) @@ ("x" :> HalfPx(8))
 @@ ("y" :> HalfPx(8)) @@ ("z" :> HalfPx(8))
 @@ ("A" :> HalfPx(11)) @@ ("B" :> HalfPx(10)) @@ ("C" :> HalfPx(11)) @@ ("D" :> HalfPx(11))
 @@ ("E" :> HalfPx(9)) @@ ("F" :> HalfPx(9)) @@ ("G" :> HalfPx(12)) @@ ("H" :> HalfPx(11))
 @@ ("I" :> HalfPx(4)) @@ ("J" :> HalfPx(7))
 @@ ("K" :> HalfPx(10)) @@ ("L" :> HalfPx(9)) @@ ("M" :> HalfPx(13)) @@ ("N" :> HalfPx(11))
 @@ ("O" :> HalfPx(12)) @@ ("P" :> HalfPx(10)) @@ ("Q" :> HalfPx(12)) @@ ("R" :> HalfPx(10))
 @@ ("S" :> HalfPx(10)) @@ ("T" :> HalfPx(9))
 @@ ("U" :> HalfPx(11)) @@ ("V" :> HalfPx(10)) @@ ("W" :> HalfPx(15)) @@ ("X" :> HalfPx(10))
 @@ ("Y" :> HalfPx(10)) @@ ("Z" :> HalfPx(9))
 @@ ("0" :> HalfPx(9)) @@ ("1" :> HalfPx(9)) @@ ("2" :> HalfPx(9)) @@ ("3" :> HalfPx(9))
 @@ ("4" :> HalfPx(9)) @@ ("5" :> HalfPx(9)) @@ ("6" :> HalfPx(9)) @@ ("7" :> HalfPx(9))
 @@ ("8" :> HalfPx(9)) @@ ("9" :> HalfPx(9))
 @@ (" " :> HalfPx(4)) @@ ("." :> HalfPx(4)) @@ ("," :> HalfPx(4)) @@ (":" :> HalfPx(4))
 @@ (";" :> HalfPx(4)) @@ ("!" :> HalfPx(4)) @@ ("?" :> HalfPx(8)) @@ ("-" :> HalfPx(5))
 @@ ("_" :> HalfPx(8)) @@ ("(" :> HalfPx(5)) @@ (")" :> HalfPx(5))
 @@ ("[" :> HalfPx(4)) @@ ("]" :> HalfPx(4)) @@ ("{" :> HalfPx(5)) @@ ("}" :> HalfPx(5))
 @@ ("/" :> HalfPx(5)) @@ ("\\" :> HalfPx(5)) @@ ("|" :> HalfPx(4)) @@ ("@" :> HalfPx(16))
 @@ ("#" :> HalfPx(9)) @@ ("$" :> HalfPx(9))
 @@ ("%" :> HalfPx(14)) @@ ("^" :> HalfPx(8)) @@ ("&" :> HalfPx(11)) @@ ("*" :> HalfPx(6))
 @@ ("+" :> HalfPx(9)) @@ ("=" :> HalfPx(9)) @@ ("<" :> HalfPx(9)) @@ (">" :> HalfPx(9))
 @@ ("~" :> HalfPx(9)) @@ ("U+0060" :> HalfPx(5))
 @@ ("\"" :> HalfPx(5)) @@ ("'" :> HalfPx(3))

\* self.char_widths.get(char, 9)
char_width(char) ==
    IF char \in DOMAIN char_widths THEN char_widths[char] ELSE HalfPx(9)

(***************************************************************************)
(* SERPSimulator.__init__ : the SERP limits, in whole pixels.              *)
(***************************************************************************)
limits ==
    [desktop |-> [title |-> 580, description |-> 920],
     mobile  |-> [title |-> 460, description |-> 960]]

(***************************************************************************)
(* SERPSimulator.calculate_pixel_width: the sum of the characters' widths. *)
(* The loop adds them left to right from 0; the sum is taken here by       *)
(* halves (SumWidths(s, lo, hi) is the width of s[lo..hi]), which is the   *)
(* same number (the widths are multiples of 0.5, added exactly) and keeps  *)
(* the evaluation shallow on long texts.                                   *)
(***************************************************************************)
RECURSIVE SumWidths(_, _, _)
SumWidths(s, lo, hi) ==
    IF lo > hi THEN 0
    ELSE IF lo = hi THEN char_width(s[lo])
    ELSE LET mid == (lo + hi) \div 2
         IN  SumWidths(s, lo, mid) + SumWidths(s, mid + 1, hi)

\* The loop stopped one character early.
calculate_pixel_width_short(s) == SumWidths(s, 1, Len(s) - 1)

calculate_pixel_width(s) == SumWidths(s, 1, Len(s))

(***************************************************************************)
(* SERPSimulator.truncate_text                                             *)
(***************************************************************************)
Ellipsis == <<".", ".", ".">>

\* for i in range(len(text) - 1, 0, -1): the first i, going down, whose prefix
\* fits with the ellipsis; 0 when the loop ends without returning.
RECURSIVE Backtrack(_, _, _, _)
Backtrack(s, i, ellipsis_width, m) ==
    IF i <= 0 THEN 0
    ELSE IF calculate_pixel_width(Prefix(s, i)) + ellipsis_width <= HalfPx(m) THEN i
    ELSE Backtrack(s, i - 1, ellipsis_width, m)

\* The loop run upwards, range(1, len(text)), returning at the first fit.
RECURSIVE ForwardFirstFit(_, _, _, _)
ForwardFirstFit(s, i, ellipsis_width, m) ==
    IF i >= Len(s) THEN 0
    ELSE IF calculate_pixel_width(Prefix(s, i)) + ellipsis_width <= HalfPx(m) THEN i
    ELSE ForwardFirstFit(s, i + 1, ellipsis_width, m)

\* truncate_text returning the shortest fitting prefix.
truncate_text_shortest(s, m) ==
    IF s = <<>> THEN [text |-> s, truncated |-> FALSE]
    ELSE IF calculate_pixel_width(s) <= HalfPx(m) THEN [text |-> s, truncated |-> FALSE]
    ELSE LET ellipsis_width == calculate_pixel_width(Ellipsis)
             i == ForwardFirstFit(s, 1, ellipsis_width, m)
         IN  IF i > 0 THEN [text |-> Prefix(s, i) \o Ellipsis, truncated |-> TRUE]
             ELSE [text |-> IF ellipsis_width <= HalfPx(m) THEN Ellipsis ELSE <<>>,
                   truncated |-> TRUE]

\* The scan started one prefix too low, range(len(text) - 2, 0, -1).
truncate_text_skip_last(s, m) ==
    IF s = <<>> THEN [text |-> s, truncated |-> FALSE]
    ELSE IF calculate_pixel_width(s) <= HalfPx(m) THEN [text |-> s, truncated |-> FALSE]
    ELSE LET ellipsis_width == calculate_pixel_width(Ellipsis)
             i == Backtrack(s, Len(s) - 2, ellipsis_width, m)
         IN  IF i > 0 THEN [text |-> Prefix(s, i) \o Ellipsis, truncated |-> TRUE]
             ELSE [text |-> IF ellipsis_width <= HalfPx(m) THEN Ellipsis ELSE <<>>,
                   truncated |-> TRUE]

\* The ellipsis left out of the budget test.
truncate_text_no_ellipsis(s, m) ==
    IF s = <<>> THEN [text |-> s, truncated |-> FALSE]
    ELSE IF calculate_pixel_width(s) <= HalfPx(m) THEN [text |-> s, truncated |-> FALSE]
    ELSE LET ellipsis_width == calculate_pixel_width(Ellipsis)
             i == Backtrack(s, Len(s) - 1, 0, m)
         IN  IF i > 0 THEN [text |-> Prefix(s, i) \o Ellipsis, truncated |-> TRUE]
             ELSE [text |-> IF ellipsis_width <= HalfPx(m) THEN Ellipsis ELSE <<>>,
                   truncated |-> TRUE]

truncate_text(s, m) ==
    IF s = <<>> THEN [text |-> s, truncated |-> FALSE]
    ELSE IF calculate_pixel_width(s) <= HalfPx(m) THEN [text |-> s, truncated |-> FALSE]
    ELSE LET ellipsis_width == calculate_pixel_width(Ellipsis)
             i == Backtrack(s, Len(s) - 1, ellipsis_width, m)
         IN  IF i > 0 THEN [text |-> Prefix(s, i) \o Ellipsis, truncated |-> TRUE]
             ELSE [text |-> IF ellipsis_width <= HalfPx(m) THEN Ellipsis ELSE <<>>,
                   truncated |-> TRUE]

(***************************************************************************)
(* Bounds of the truncator's inputs.                                       *)
(***************************************************************************)
MaxLen == 3       \* longest input text
MinPixels == 2    \* budgets run from -MinPixels ...
MaxPixels == 44   \* ... to MaxPixels whole pixels

\* 'a' is the half-pixel entry, 'W' the widest letter, '.' the ellipsis
\* character, U+00E9 is outside the table.
TextChars == {"a", "W", ".", "U+00E9"}

RECURSIVE StringsUpTo(_, _)
StringsUpTo(chars, n) ==
    IF n = 0 THEN {<<>>}
    ELSE LET shorter == StringsUpTo(chars, n - 1)
         IN  shorter \cup {Append(s, c) : s \in {t \in shorter : Len(t) = n - 1}, c \in chars}

Texts == StringsUpTo(TextChars, MaxLen)

Budgets == (0 - MinPixels) .. MaxPixels

IdleTruncator ==
    /\ text = <<>> /\ max_pixels = 0
    /\ pixels = NoValue /\ truncation = NoValue /\ retruncation = NoValue

IdleFormatter == url = NoValue /\ formatted = NoValue

IdleBulk ==
    /\ device_type = "desktop" /\ df = <<>> /\ results = <<>> /\ summary = NoValue

TruncatorVars == <<text, max_pixels, pixels, truncation, retruncation>>
FormatterVars == <<url, formatted>>
BulkVars == <<device_type, df, results, summary>>

TruncatorInit ==
    /\ text \in Texts
    /\ max_pixels \in Budgets
    /\ pixels = NoValue /\ truncation = NoValue /\ retruncation = NoValue
    /\ IdleFormatter /\ IdleBulk
    /\ pc = "truncator"

\* text_pixels = simulator.calculate_pixel_width(text)
Measure ==
    /\ pc = "truncator" /\ pixels = NoValue
    /\ pixels' = [width |-> calculate_pixel_width(text)]
    /\ UNCHANGED <<text, max_pixels, truncation, retruncation, pc>>
    /\ UNCHANGED FormatterVars /\ UNCHANGED BulkVars

\* simulator.truncate_text(text, max_pixels)
Truncate ==
    /\ pc = "truncator" /\ truncation = NoValue
    /\ truncation' = truncate_text(text, max_pixels)
    /\ UNCHANGED <<text, max_pixels, pixels, retruncation, pc>>
    /\ UNCHANGED FormatterVars /\ UNCHANGED BulkVars

\* simulator.truncate_text(truncated_text, max_pixels): the result fed back
Retruncate ==
    /\ pc = "truncator" /\ truncation # NoValue /\ retruncation = NoValue
    /\ retruncation' = truncate_text(truncation.text, max_pixels)
    /\ UNCHANGED <<text, max_pixels, pixels, truncation, pc>>
    /\ UNCHANGED FormatterVars /\ UNCHANGED BulkVars

TruncatorNext == Measure \/ Truncate \/ Retruncate

TruncatorSpec == TruncatorInit /\ [][TruncatorNext]_vars

(***************************************************************************)
(* Properties of the width estimator and the truncator                     *)
(***************************************************************************)
Width(s) == calculate_pixel_width(s)

Over == truncation # NoValue /\ Width(text) > HalfPx(max_pixels)

\* prefix s[:i] plus the ellipsis is within the budget m
Fits(s, i, m) == Width(Prefix(s, i)) + Width(Ellipsis) <= HalfPx(m)

\* C1 as stated: whenever the text is wider than the budget (the empty text
\* under a negative budget included), truncate_text reports truncated = True
\* and returns a text within the budget, or "..." or "".
C1_Original ==
    Over => /\ truncation.truncated
            /\ \/ Width(truncation.text) <= HalfPx(max_pixels)
               \/ truncation.text \in {Ellipsis, <<>>}

\* C1 amended: the same for every NON-EMPTY text wider than the budget; the
\* empty text is returned unchanged with truncated = False under any budget.
C1_TruncatedFits ==
    /\ (Over /\ text # <<>>) =>
            /\ truncation.truncated
            /\ \/ Width(truncation.text) <= HalfPx(max_pixels)
               \/ truncation.text \in {Ellipsis, <<>>}
    /\ (truncation # NoValue /\ text = <<>>) =>
            truncation = [text |-> <<>>, truncated |-> FALSE]

C1_Witness ==
    /\ Over /\ text # <<>> /\ truncation.truncated
    /\ Len(truncation.text) > Len(Ellipsis)
    /\ Width(truncation.text) <= HalfPx(max_pixels)

\* C2: when the text is wider than the budget and some non-empty prefix fits
\* with the ellipsis, the result is the LONGEST such prefix plus "...",
\* truncated = True: no longer prefix of the text fits with the ellipsis.
C2_LongestPrefix ==
    (Over /\ \E i \in 1..Len(text) : Fits(text, i, max_pixels)) =>
        \E i \in 1..Len(text) :
            /\ Fits(text, i, max_pixels)
            /\ \A j \in (i + 1)..Len(text) : ~Fits(text, j, max_pixels)
            /\ truncation = [text |-> Prefix(text, i) \o Ellipsis, truncated |-> TRUE]

C2_Witness ==
    /\ Over /\ Len(text) >= 3
    /\ Fits(text, 1, max_pixels) /\ Fits(text, Len(text) - 1, max_pixels)
    /\ truncation.text = Prefix(text, Len(text) - 1) \o Ellipsis

\* C3 as stated: truncating the truncated text again under the same budget
\* gives the same result, text and truncated flag alike.
C3_Original == retruncation # NoValue => retruncation = truncation

\* C3 amended: truncating again returns the same TEXT, with truncated =
\* False; the two results are equal exactly when the first was not truncated.
C3_TextIdempotent ==
    retruncation # NoValue =>
        /\ retruncation.text = truncation.text
        /\ retruncation.truncated = FALSE

C3_Witness ==
    /\ retruncation # NoValue /\ truncation.truncated
    /\ Len(truncation.text) > Len(Ellipsis)
    /\ retruncation.text = truncation.text

RECURSIVE Count(_, _)
Count(s, c) ==
    IF s = <<>> THEN 0 ELSE (IF Head(s) = c THEN 1 ELSE 0) + Count(Tail(s), c)

AllPositive == \A c \in DOMAIN char_widths \cup TextChars : char_width(c) > 0

\* C7 as stated: the width is a non-negative whole number of pixels, every
\* per-character contribution is a positive whole number, the empty text
\* has width 0.
C7_Original ==
    pixels # NoValue =>
        /\ pixels.width >= 0 /\ pixels.width % 2 = 0
        /\ \A i \in 1..Len(text) :
                char_width(text[i]) > 0 /\ char_width(text[i]) % 2 = 0
        /\ (text = <<>> => pixels.width = 0)

\* C7 amended: the width is a non-negative multiple of half a pixel, whole
\* exactly when the text holds an even number of 'a' (8.5 pixels, the one
\* entry that is not whole); every contribution is positive; the empty text
\* has width 0.
C7_HalfPixels ==
    pixels # NoValue =>
        /\ pixels.width >= 0
        /\ (pixels.width % 2 = 0) <=> (Count(text, "a") % 2 = 0)
        /\ AllPositive
        /\ \A c \in (DOMAIN char_widths \cup TextChars) \ {"a"} : char_width(c) % 2 = 0
        /\ (text = <<>> => pixels.width = 0)

C7_Witness ==
    /\ pixels # NoValue /\ Count(text, "a") = 2 /\ "U+00E9" \in {text[i] : i \in 1..Len(text)}
    /\ pixels.width = HalfPx(17 + 9)

(***************************************************************************)
(* The two substitutes for the backward scan that C9 names.                *)
(***************************************************************************)
\* binary search for the largest i in lo..hi with Fits, best so far in best
RECURSIVE BinarySearch(_, _, _, _, _)
BinarySearch(s, m, lo, hi, best) ==
    IF lo > hi THEN best
    ELSE LET mid == (lo + hi) \div 2
         IN  IF Fits(s, mid, m) THEN BinarySearch(s, m, mid + 1, hi, mid)
             ELSE BinarySearch(s, m, lo, mid - 1, best)

\* forward greedy scan: extend the prefix while the next one still fits
RECURSIVE Greedy(_, _, _)
Greedy(s, m, i) ==
    IF i + 1 <= Len(s) - 1 /\ Fits(s, i + 1, m) THEN Greedy(s, m, i + 1) ELSE i

TruncateAt(s, m, i) ==
    IF s = <<>> \/ Width(s) <= HalfPx(m) THEN [text |-> s, truncated |-> FALSE]
    ELSE IF i > 0 THEN [text |-> Prefix(s, i) \o Ellipsis, truncated |-> TRUE]
    ELSE [text |-> IF Width(Ellipsis) <= HalfPx(m) THEN Ellipsis ELSE <<>>,
          truncated |-> TRUE]

\* C9: every width of the table is positive, so the width never decreases
\* from a prefix to a longer one, and a binary
\* search over the prefix lengths, or a forward greedy scan, returns the
\* result of the backward scan of truncate_text.
C9_ScansAgree ==
    truncation # NoValue =>
        /\ AllPositive
        /\ \A i \in 0..Len(text) : \A j \in i..Len(text) :
                Width(Prefix(text, i)) <= Width(Prefix(text, j))
        /\ truncation = TruncateAt(text, max_pixels,
                            BinarySearch(text, max_pixels, 1, Len(text) - 1, 0))
        /\ truncation = TruncateAt(text, max_pixels, Greedy(text, max_pixels, 0))

C9_Witness ==
    /\ Over /\ Len(text) >= 3
    /\ BinarySearch(text, max_pixels, 1, Len(text) - 1, 0) = 2
    /\ Greedy(text, max_pixels, 0) = 2
    /\ truncation.text = Prefix(text, 2) \o Ellipsis

(***************************************************************************)
(* Python values: a str, None, an int, and the float NaN that read_csv     *)
(* puts in an empty cell.                                                  *)
(***************************************************************************)
PyStr(s) == [type |-> "str", chars |-> s]
PyNone == [type |-> "NoneType"]
PyInt(n) == [type |-> "int", int |-> n]
PyNaN == [type |-> "float", nan |-> TRUE]

\* str(v) of a table cell: a str is itself, NaN is 'nan'
py_str(v) == IF v.type = "str" THEN v.chars ELSE <<"n", "a", "n">>

\* bool(v), as `if not url` takes it
Truthy(v) ==
    CASE v.type = "str" -> v.chars # <<>>
      [] v.type = "int" -> v.int # 0
      [] v.type = "float" -> TRUE
      [] OTHER -> FALSE

startswith(s, p) == Len(s) >= Len(p) /\ Prefix(s, Len(p)) = p

Http == <<"h", "t", "t", "p", ":", "/", "/">>
Https == <<"h", "t", "t", "p", "s", ":", "/", "/">>
Www == <<"w", "w", "w", ".">>
Sep == <<" ", "U+203A", " ">>
Placeholder ==
    <<"e", "x", "a", "m", "p", "l", "e", ".", "c", "o", "m">> \o Sep \o Ellipsis

\* re.sub(r'^https?://', '', url): one match at most, at the start
re_sub_scheme(s) ==
    IF startswith(s, Https) THEN Suffix(s, Len(Https))
    ELSE IF startswith(s, Http) THEN Suffix(s, Len(Http))
    ELSE s

\* str.split('/'): the pieces between the slashes, empty ones kept
RECURSIVE split(_, _, _)
split(s, i, piece) ==
    IF i > Len(s) THEN <<piece>>
    ELSE IF s[i] = "/" THEN <<piece>> \o split(s, i + 1, <<>>)
    ELSE split(s, i + 1, Append(piece, s[i]))

\* str.replace(old, ''): every non-overlapping occurrence, left to right
RECURSIVE replace(_, _)
replace(s, old) ==
    IF s = <<>> THEN <<>>
    ELSE IF startswith(s, old) THEN replace(Suffix(s, Len(old)), old)
    ELSE <<Head(s)>> \o replace(Tail(s), old)

\* ' › '.join(path)
RECURSIVE join(_)
join(path) ==
    IF path = <<>> THEN <<>>
    ELSE IF Len(path) = 1 THEN path[1]
    ELSE path[1] \o Sep \o join(Tail(path))

\* [p for p in parts[1:] if p]
nonempty(parts) == SelectSeq(parts, LAMBDA p : p # <<>>)

\* The try block of format_url: raises TypeError when url is not a str.
format_url_try(v) ==
    IF v.type # "str" THEN [outcome |-> "raise", value |-> [type |-> "TypeError"]]
    ELSE LET clean_url == re_sub_scheme(v.chars)
             parts == split(clean_url, 1, <<>>)
             domain == replace(parts[1], Www)
             path == nonempty(Tail(parts))
         IN  [outcome |-> "return", value |-> PyStr(domain \o Sep \o join(path))]

\* format_url without its except clause
format_url_uncaught(v) ==
    IF ~Truthy(v) THEN [outcome |-> "return", value |-> PyStr(Placeholder)]
    ELSE format_url_try(v)

(***************************************************************************)
(* SERPSimulator.format_url                                                *)
(***************************************************************************)
format_url(v) ==
    IF ~Truthy(v) THEN [outcome |-> "return", value |-> PyStr(Placeholder)]
    ELSE LET r == format_url_try(v)
         IN  IF r.outcome = "raise" THEN [outcome |-> "return", value |-> v]
             ELSE r

(***************************************************************************)
(* Bounds of the formatter's inputs: a url is up to MaxPieces pieces.      *)
(***************************************************************************)
MaxPieces == 4
MaxInt == 1

UrlPieces == {Http, Https, Www, <<"/">>, <<"a">>, <<"b", ".", "c">>}

RECURSIVE Concats(_, _)
Concats(pieces, n) ==
    IF n = 0 THEN {<<>>}
    ELSE LET shorter == Concats(pieces, n - 1)
         IN  shorter \cup {s \o p : s \in shorter, p \in pieces}

Urls == {PyStr(s) : s \in Concats(UrlPieces, MaxPieces)}
            \cup {PyNone, PyNaN} \cup {PyInt(n) : n \in 0..MaxInt}

FormatterInit ==
    /\ url \in Urls
    /\ formatted = NoValue
    /\ IdleTruncator /\ IdleBulk
    /\ pc = "formatter"

\* formatted_url = simulator.format_url(url)
FormatUrl ==
    /\ pc = "formatter" /\ formatted = NoValue
    /\ formatted' = format_url(url)
    /\ pc' = "formatted"
    /\ UNCHANGED url
    /\ UNCHANGED TruncatorVars /\ UNCHANGED BulkVars

FormatterNext == FormatUrl

FormatterSpec == FormatterInit /\ [][FormatterNext]_vars

(***************************************************************************)
(* Properties of the formatter                                             *)
(***************************************************************************)
IsUrlString == formatted # NoValue /\ url.type = "str" /\ url.chars # <<>>

\* the host: the first '/'-separated segment after the optional scheme
Host(s) == split(re_sub_scheme(s), 1, <<>>)[1]

StripLeadingWww(h) == IF startswith(h, Www) THEN Suffix(h, Len(Www)) ELSE h

\* C6: for a non-empty url string the output starts with the host less a
\* leading "www." only: a host that does not start with "www." is unchanged,
\* a later "www." inside the host is kept.
C6_OnlyLeadingWww ==
    IsUrlString =>
        /\ formatted.outcome = "return" /\ formatted.value.type = "str"
        /\ startswith(formatted.value.chars, StripLeadingWww(Host(url.chars)) \o Sep)

IsBreadcrumb(v) ==
    /\ v.type = "str"
    /\ \E i \in 0..Len(v.chars) - Len(Sep) : startswith(Suffix(v.chars, i), Sep)

\* C8: format_url never raises: a falsy url gives the placeholder, a
\* non-empty str gives a breadcrumb string, any other truthy value comes
\* back unchanged.
C8_NeverRaises ==
    formatted # NoValue =>
        /\ formatted.outcome = "return"
        /\ ~Truthy(url) => formatted.value = PyStr(Placeholder)
        /\ (Truthy(url) /\ url.type = "str") => IsBreadcrumb(formatted.value)
        /\ (Truthy(url) /\ url.type # "str") => formatted.value = url

C8_Witness ==
    /\ formatted # NoValue /\ url.type = "int" /\ Truthy(url)
    /\ formatted = [outcome |-> "return", value |-> url]

(***************************************************************************)
(* main(): the bulk analysis loop and its summary metrics.                 *)
(***************************************************************************)
\* title_limit, desc_limit = simulator.limits[device_key][...]
title_limit(device) == limits[device].title

desc_limit(device) == limits[device].description

\* One iteration of `for _, row in df.iterrows()`, the description checked
\* against the title limit.
analyze_row_title_limit(row, device) ==
    LET title == py_str(row.title)
        description == py_str(row.description)
        title_pixels == calculate_pixel_width(title)
        desc_pixels == calculate_pixel_width(description)
        title_truncation == truncate_text(title, title_limit(device))
        desc_truncation == truncate_text(description, desc_limit(device))
    IN  [Original_Title |-> row.title,
         Original_Description |-> row.description,
         URL |-> row.url,
         Title_Pixels |-> title_pixels,
         Title_OK |-> title_pixels <= HalfPx(title_limit(device)),
         Title_Truncated |-> title_truncation.truncated,
         Desc_Pixels |-> desc_pixels,
         Desc_OK |-> desc_pixels <= HalfPx(title_limit(device)),
         Desc_Truncated |-> desc_truncation.truncated,
         Truncated_Title |-> title_truncation.text,
         Truncated_Description |-> desc_truncation.text]

\* One iteration, the URL column holding the formatted url.
analyze_row_formatted_url(row, device) ==
    LET title == py_str(row.title)
        description == py_str(row.description)
        title_pixels == calculate_pixel_width(title)
        desc_pixels == calculate_pixel_width(description)
        title_truncation == truncate_text(title, title_limit(device))
        desc_truncation == truncate_text(description, desc_limit(device))
    IN  [Original_Title |-> row.title,
         Original_Description |-> row.description,
         URL |-> format_url(row.url).value,
         Title_Pixels |-> title_pixels,
         Title_OK |-> title_pixels <= HalfPx(title_limit(device)),
         Title_Truncated |-> title_truncation.truncated,
         Desc_Pixels |-> desc_pixels,
         Desc_OK |-> desc_pixels <= HalfPx(desc_limit(device)),
         Desc_Truncated |-> desc_truncation.truncated,
         Truncated_Title |-> title_truncation.text,
         Truncated_Description |-> desc_truncation.text]

\* One iteration of `for _, row in df.iterrows()`: the row's result.
analyze_row(row, device) ==
    LET title == py_str(row.title)
        description == py_str(row.description)
        title_pixels == calculate_pixel_width(title)
        desc_pixels == calculate_pixel_width(description)
        title_truncation == truncate_text(title, title_limit(device))
        desc_truncation == truncate_text(description, desc_limit(device))
    IN  [Original_Title |-> row.title,
         Original_Description |-> row.description,
         URL |-> row.url,
         Title_Pixels |-> title_pixels,
         Title_OK |-> title_pixels <= HalfPx(title_limit(device)),
         Title_Truncated |-> title_truncation.truncated,
         Desc_Pixels |-> desc_pixels,
         Desc_OK |-> desc_pixels <= HalfPx(desc_limit(device)),
         Desc_Truncated |-> desc_truncation.truncated,
         Truncated_Title |-> title_truncation.text,
         Truncated_Description |-> desc_truncation.text]

\* Series.sum() of a column of booleans: the number of True
RECURSIVE sum(_)
sum(column) ==
    IF column = <<>> THEN 0
    ELSE (IF Head(column) THEN 1 ELSE 0) + sum(Tail(column))

\* results_df['Title_OK'], results_df['Desc_OK'] and the & of the two
Title_OK(results_df) == [i \in 1..Len(results_df) |-> results_df[i].Title_OK]

Desc_OK(results_df) == [i \in 1..Len(results_df) |-> results_df[i].Desc_OK]

and(left, right) == [i \in 1..Len(left) |-> left[i] /\ right[i]]

or(left, right) == [i \in 1..Len(left) |-> left[i] \/ right[i]]

\* The summary with Both OK taken as Title_OK | Desc_OK.
summary_metrics_or(results_df) ==
    [total |-> Len(results_df),
     titles_ok |-> sum(Title_OK(results_df)),
     descs_ok |-> sum(Desc_OK(results_df)),
     both_ok |-> sum(or(Title_OK(results_df), Desc_OK(results_df)))]

\* The four st.metric values under "Display summary metrics".
summary_metrics(results_df) ==
    [total |-> Len(results_df),
     titles_ok |-> sum(Title_OK(results_df)),
     descs_ok |-> sum(Desc_OK(results_df)),
     both_ok |-> sum(and(Title_OK(results_df), Desc_OK(results_df)))]

(***************************************************************************)
(* Bounds of the uploaded table: up to MaxRows rows.  A cell is a non-empty *)
(* str or NaN (read_csv reads an empty cell as NaN, never as '').  The     *)
(* texts are runs of '@' (16 px) on either side of the limits: titles of   *)
(* 460 (28 '@' and a 'w', 12 px: the mobile limit exactly) and 592 px      *)
(* against 460 and 580; descriptions of 928 and 976 px against 920 and     *)
(* 960.  The url column holds NaN and a full url.                          *)
(***************************************************************************)
MaxRows == 2

Titles == {PyNaN, PyStr(Rep("@", 28) \o <<"w">>), PyStr(Rep("@", 37))}

Descriptions == {PyNaN, PyStr(Rep("@", 58)), PyStr(Rep("@", 61))}

CellUrl(t, d) ==
    IF (Len(py_str(t)) + Len(py_str(d))) % 2 = 0 THEN PyNaN
    ELSE PyStr(Https \o Www \o <<"a", "/", "b">>)

Rows ==
    {[title |-> t, description |-> d, url |-> CellUrl(t, d)] :
        t \in Titles, d \in Descriptions}

RECURSIVE Tables(_)
Tables(n) ==
    IF n = 0 THEN {<<>>}
    ELSE LET shorter == Tables(n - 1)
         IN  shorter \cup {Append(t, r) : t \in {u \in shorter : Len(u) = n - 1}, r \in Rows}

BulkInit ==
    /\ device_type \in DOMAIN limits
    /\ df \in Tables(MaxRows)
    /\ results = <<>>
    /\ summary = NoValue
    /\ IdleTruncator /\ IdleFormatter
    /\ pc = "bulk_loop"

\* the body of the for loop, for the next row of df
ProcessRow ==
    /\ pc = "bulk_loop" /\ Len(results) < Len(df)
    /\ results' = Append(results, analyze_row(df[Len(results) + 1], device_type))
    /\ UNCHANGED <<device_type, df, summary, pc>>
    /\ UNCHANGED TruncatorVars /\ UNCHANGED FormatterVars

\* after the loop: results_df = pd.DataFrame(results) and the four metrics
Summarize ==
    /\ pc = "bulk_loop" /\ Len(results) = Len(df)
    /\ summary' = summary_metrics(results)
    /\ pc' = "bulk_done"
    /\ UNCHANGED <<device_type, df, results>>
    /\ UNCHANGED TruncatorVars /\ UNCHANGED FormatterVars

BulkNext == ProcessRow \/ Summarize

BulkSpec == BulkInit /\ [][BulkNext]_vars

(***************************************************************************)
(* The whole program: one of the three operations, from its inputs.        *)
(***************************************************************************)
Init == TruncatorInit \/ FormatterInit \/ BulkInit

Next == TruncatorNext \/ FormatterNext \/ BulkNext

Spec == Init /\ [][Next]_vars

(***************************************************************************)
(* Properties of the bulk analysis                                         *)
(***************************************************************************)
TitleFits(row) == Width(py_str(row.title)) <= HalfPx(limits[device_type].title)

DescFits(row) ==
    Width(py_str(row.description)) <= HalfPx(limits[device_type].description)

Min(a, b) == IF a <= b THEN a ELSE b

Orders(n) == {p \in [1..n -> 1..n] : \A i, j \in 1..n : p[i] = p[j] => i = j}

\* the rows of df in the order p
Reordered(p) == [i \in 1..Len(df) |-> df[p[i]]]

\* the whole bulk analysis of a table: the loop over its rows in their order,
\* then the metrics
BulkSummary(rows) ==
    summary_metrics([i \in 1..Len(rows) |-> analyze_row(rows[i], device_type)])

EmptyRow(device) ==
    analyze_row([title |-> PyStr(<<>>), description |-> PyStr(<<>>), url |-> PyNaN],
                device)

\* C10: in every result row, under either device profile, the truncation
\* flag is the negation of the OK verdict, for the title and for the
\* description; so it is for the empty title and description.
C10_TruncatedIffNotOk ==
    /\ \A i \in 1..Len(results) :
        /\ results[i].Title_Truncated = ~results[i].Title_OK
        /\ results[i].Desc_Truncated = ~results[i].Desc_OK
    /\ \A device \in DOMAIN limits :
        /\ EmptyRow(device).Title_Truncated = ~EmptyRow(device).Title_OK
        /\ EmptyRow(device).Desc_Truncated = ~EmptyRow(device).Desc_OK

C10_Witness ==
    \E i, j \in 1..Len(results) :
        /\ results[i].Title_OK /\ ~results[i].Title_Truncated
        /\ results[i].Title_Pixels = HalfPx(limits[device_type].title)
        /\ results[j].Desc_Truncated /\ ~results[j].Desc_OK
        /\ results[j].Title_Truncated /\ ~results[j].Title_OK

=============================================================================
